---- MODULE Spec2Model ----
(***************************************************************************)
(* Round state machine, angle simulation and scoring of the press-brake    *)
(* game (src/main.js; src/unnamed/part_000 is the local-storage variant    *)
(* with the same core and a different TARGET_ANGLES list).                 *)
(*                                                                         *)
(* Numbers.  The code keeps currentAngle as a double.  The model keeps it  *)
(* as an integer count of tenths of a degree (Deg(1) = 10), and dt as an   *)
(* integer count of sixths of a second, so one unit of dt at bendSpeed 30  *)
(* bends the sheet by 5 degrees.  targetAngle stays in whole degrees as in *)
(* the code.  All arithmetic on this grid is exact.                        *)
(***************************************************************************)
EXTENDS Integers, Sequences, FiniteSets, TLC

VARIABLES
    score,              \* state.score
    currentRound,       \* state.currentRound
    targetAngle,        \* state.targetAngle (degrees)
    currentAngle,       \* state.currentAngle (tenths of a degree)
    isBending,          \* state.isBending
    gamePhase,          \* state.gamePhase
    btnActionDisabled,  \* btnAction.disabled
    btnNextShown,       \* btnNext.style.display # 'none'
    checksThisSession,  \* history: checkHighScore() calls since initGame() / restartGame()
    lastOp,             \* history: the handler that ran last and the phase it ran in
    store,              \* the sorted set 'kantpress_scores' of the KV store: member -> score
    clock,              \* Date.now() of the server
    response,           \* the last response of the /api/scores handler
    checkFetch,         \* the fetch awaited by checkHighScore(): "none" or "pending"
    renderPending,      \* fetches awaited by renderScoreboard() calls
    savePost,           \* the POST awaited by saveScore(): whether one is pending, and its body
    inputModal,         \* highscore-modal is displayed
    boardModal,         \* scoreboard-modal is displayed
    boardList,          \* content of highscore-list
    btnSaveDisabled,    \* the save button of highscore-modal is disabled
    postsSent,          \* history: POSTs sent by saveScore()
    postsRejected       \* history: POSTs whose fetch rejected

\* the game, as far as the first ten variables
gameVars == <<score, currentRound, targetAngle, currentAngle, isBending, gamePhase,
              btnActionDisabled, btnNextShown, checksThisSession, lastOp>>

\* the leaderboard: server store, requests in flight, modals
boardRest == <<store, clock, response, checkFetch, renderPending, savePost, inputModal,
               boardList, btnSaveDisabled, postsSent, postsRejected>>

boardVars == <<boardRest, boardModal>>

vars == <<gameVars, boardVars>>

\* the session record of the spec (section 3)
session == <<score, currentRound, targetAngle, currentAngle, isBending, gamePhase>>

----------------------------------------------------------------------------
\* Bounds of the model

\* largest elapsed time of one frame, in sixths of a second
MaxDelta == 6

\* most checkHighScore() calls followed within one session
MaxChecks == 2

----------------------------------------------------------------------------
\* Program constants

TARGET_ANGLES == <<40, 85, 90, 100, 135, 160, 170>>

SCORE_PER_EXACT_HIT == 100

MAX_ROUNDS == 10

\* the literal 45 of update()
MIN_ANGLE == 45

\* state.bendSpeed, never assigned after the literal
bendSpeed == 30

\* the literal 180 of nextLevel() and of the state literal
FLAT_ANGLE == 180

----------------------------------------------------------------------------
\* Arithmetic helpers

\* d degrees in the unit of currentAngle
Deg(d) == 10 * d

Abs(x) == IF x < 0 THEN -x ELSE x

\* the points without Math.max(0, ...)
Max_Missing(a, b) == b

Max(a, b) == IF a >= b THEN a ELSE b

\* Math.round in place of Math.floor
Floor_Round(n) == (n + Deg(1) \div 2) \div Deg(1)

\* Math.floor of the rational n / Deg(1)
Floor(n) == IF n >= 0 THEN n \div Deg(1) ELSE -((-n + Deg(1) - 1) \div Deg(1))

DeltaTimes == 0 .. MaxDelta

\* the angle is incremented (+=) in place of decremented
Decrement_Added(dt) == -((bendSpeed * dt * Deg(1)) \div 6)

\* state.bendSpeed * dt, dt in sixths of a second, result in tenths of a degree
Decrement(dt) == (bendSpeed * dt * Deg(1)) \div 6

Phases == {"IDLE", "BENDING", "STOPPED", "GAMEOVER"}

TargetSet == {TARGET_ANGLES[i] : i \in 1 .. Len(TARGET_ANGLES)}

----------------------------------------------------------------------------
\* calculateScore(): the points for a final angle (tenths) and a target (degrees)

\* the difference without Math.abs
Diff_Signed(angle, target) == angle - Deg(target)

Diff(angle, target) == Abs(angle - Deg(target))

\* calculateScore() that adds the exact-hit score on top of the graded one
Points_BonusOnTop(angle, target) ==
    IF 2 * Diff(angle, target) < Deg(1)
    THEN SCORE_PER_EXACT_HIT + Max(0, Floor(Deg(100) - Diff(angle, target) * 5))
    ELSE Max(0, Floor(Deg(100) - Diff(angle, target) * 5))

Points(angle, target) ==
    IF 2 * Diff(angle, target) < Deg(1)
    THEN SCORE_PER_EXACT_HIT
    ELSE Max(0, Floor(Deg(100) - Diff(angle, target) * 5))

\* saveScore() awaits no POST
NoPost == [pending |-> FALSE, name |-> <<>>, score |-> 0]

\* highscore-list before renderScoreboard() ever ran
EmptyList == [state |-> "empty", rows |-> <<>>]

\* no request has been answered yet
NoResponse == [status |-> 0, body |-> <<>>]

----------------------------------------------------------------------------
\* the sorted set with no member
EmptyStore == [m \in {} |-> 0]

\* the leaderboard side at page load: nothing in flight, both modals hidden
BoardIdle ==
    /\ clock = 0
    /\ response = NoResponse
    /\ checkFetch = "none"
    /\ renderPending = 0
    /\ savePost = NoPost
    /\ inputModal = FALSE
    /\ boardModal = FALSE
    /\ boardList = EmptyList
    /\ btnSaveDisabled = FALSE
    /\ postsSent = 0
    /\ postsRejected = 0

\* the state literal alone, initGame() not calling nextLevel()
Init_NoNextLevel ==
    /\ score = 0
    /\ currentRound = 1
    /\ targetAngle = 0
    /\ currentAngle = Deg(FLAT_ANGLE)
    /\ isBending = FALSE
    /\ gamePhase = "IDLE"
    /\ btnActionDisabled = FALSE
    /\ btnNextShown = FALSE
    /\ checksThisSession = 0
    /\ lastOp = [op |-> "initGame", from |-> "IDLE"]
    /\ store = EmptyStore
    /\ BoardIdle

Init ==
    /\ score = 0
    /\ currentRound = 1
    /\ targetAngle \in TargetSet
    /\ currentAngle = Deg(FLAT_ANGLE)
    /\ isBending = FALSE
    /\ gamePhase = "IDLE"
    /\ btnActionDisabled = FALSE
    /\ btnNextShown = FALSE
    /\ checksThisSession = 0
    /\ lastOp = [op |-> "initGame", from |-> "IDLE"]
    /\ store = EmptyStore
    /\ BoardIdle

----------------------------------------------------------------------------
\* endGame(): phase GAMEOVER, both buttons off, checkHighScore() starts a fetch
EndGame ==
    /\ checksThisSession < MaxChecks
    /\ gamePhase' = "GAMEOVER"
    /\ btnActionDisabled' = TRUE
    /\ btnNextShown' = FALSE
    /\ checksThisSession' = checksThisSession + 1
    /\ UNCHANGED <<targetAngle, currentAngle, isBending>>

\* nextLevel() without the reset of currentAngle
EnterRound_KeepAngle(i) ==
    /\ gamePhase' = "IDLE"
    /\ isBending' = FALSE
    /\ targetAngle' = TARGET_ANGLES[i]
    /\ btnActionDisabled' = FALSE
    /\ btnNextShown' = FALSE
    /\ UNCHANGED currentAngle

\* the body of nextLevel() below its early return; i is the index drawn by
\* Math.floor(Math.random() * TARGET_ANGLES.length), counted from 1
EnterRound(i) ==
    /\ gamePhase' = "IDLE"
    /\ currentAngle' = Deg(FLAT_ANGLE)
    /\ isBending' = FALSE
    /\ targetAngle' = TARGET_ANGLES[i]
    /\ btnActionDisabled' = FALSE
    /\ btnNextShown' = FALSE

\* nextLevel(), the click handler of btnNext
NextLevel ==
    /\ lastOp' = [op |-> "nextLevel", from |-> gamePhase]
    /\ UNCHANGED boardVars
    /\ UNCHANGED <<score, currentRound>>
    /\ IF currentRound > MAX_ROUNDS
       THEN EndGame
       ELSE /\ \E i \in 1 .. Len(TARGET_ANGLES) : EnterRound(i)
            /\ UNCHANGED checksThisSession

\* restartGame() without state.score = 0
RestartGame_KeepScore ==
    /\ lastOp' = [op |-> "restartGame", from |-> gamePhase]
    /\ boardModal' = FALSE
    /\ UNCHANGED boardRest
    /\ currentRound' = 1
    /\ \E i \in 1 .. Len(TARGET_ANGLES) : EnterRound(i)
    /\ checksThisSession' = 0
    /\ UNCHANGED score

\* restartGame(): score and round reset, scoreboard-modal hidden, then nextLevel(), which with
\* currentRound = 1 <= MAX_ROUNDS runs past its early return; a session begins
RestartGame ==
    /\ lastOp' = [op |-> "restartGame", from |-> gamePhase]
    /\ boardModal' = FALSE
    /\ UNCHANGED boardRest
    /\ score' = 0
    /\ currentRound' = 1
    /\ \E i \in 1 .. Len(TARGET_ANGLES) : EnterRound(i)
    /\ checksThisSession' = 0

\* startBending() without raising the isBending flag
StartEffects_NoFlag ==
    /\ gamePhase' = "BENDING"
    /\ UNCHANGED <<score, currentRound, targetAngle, currentAngle, isBending,
                   btnActionDisabled, btnNextShown, checksThisSession>>

\* the assignments of startBending() below its guard
StartEffects ==
    /\ gamePhase' = "BENDING"
    /\ isBending' = TRUE
    /\ UNCHANGED <<score, currentRound, targetAngle, currentAngle,
                   btnActionDisabled, btnNextShown, checksThisSession>>

\* stopBending() without state.currentRound++
StopEffects_NoIncrement(angle) ==
    /\ gamePhase' = "STOPPED"
    /\ isBending' = FALSE
    /\ score' = score + Points(angle, targetAngle)
    /\ btnActionDisabled' = TRUE
    /\ btnNextShown' = TRUE
    /\ UNCHANGED <<currentRound, targetAngle, checksThisSession>>

\* the assignments of stopBending() below its guard; angle is the value of
\* state.currentAngle that calculateScore() reads
StopEffects(angle) ==
    /\ gamePhase' = "STOPPED"
    /\ isBending' = FALSE
    /\ score' = score + Points(angle, targetAngle)
    /\ currentRound' = currentRound + 1
    /\ btnActionDisabled' = TRUE
    /\ btnNextShown' = TRUE
    /\ UNCHANGED <<targetAngle, checksThisSession>>

\* a handler that returned early
NoEffect == UNCHANGED <<score, currentRound, targetAngle, currentAngle, isBending,
                        gamePhase, btnActionDisabled, btnNextShown, checksThisSession>>

\* startBending() without its early return
StartGuard_Missing == TRUE

\* the guard of startBending()
StartGuard == gamePhase = "IDLE"

\* stopBending() without its early return
StopGuard_Missing == TRUE

\* the guard of stopBending()
StopGuard == gamePhase = "BENDING"

StartBending ==
    /\ lastOp' = [op |-> "startBending", from |-> gamePhase]
    /\ UNCHANGED boardVars
    /\ IF StartGuard THEN StartEffects ELSE NoEffect

StopBending ==
    /\ lastOp' = [op |-> "stopBending", from |-> gamePhase]
    /\ UNCHANGED boardVars
    /\ IF StopGuard
       THEN StopEffects(currentAngle) /\ UNCHANGED currentAngle
       ELSE NoEffect

\* toggleAction(), the mousedown / touchstart handler of btnAction
ToggleAction ==
    /\ lastOp' = [op |-> "toggleAction", from |-> gamePhase]
    /\ UNCHANGED boardVars
    /\ IF gamePhase = "IDLE"
       THEN IF StartGuard THEN StartEffects ELSE NoEffect
       ELSE IF gamePhase = "BENDING"
            THEN IF StopGuard
                 THEN StopEffects(currentAngle) /\ UNCHANGED currentAngle
                 ELSE NoEffect
            ELSE NoEffect

\* the clamp test of update()
BelowFloor(angle) == angle < Deg(MIN_ANGLE)

\* update() calling stopBending() before the clamp assignment
Update_ScoreBeforeClamp(dt) ==
    IF isBending
    THEN LET moved == currentAngle - Decrement(dt) IN
         IF BelowFloor(moved)
         THEN /\ currentAngle' = Deg(MIN_ANGLE)
              /\ IF StopGuard
                 THEN StopEffects(moved)
                 ELSE UNCHANGED <<score, currentRound, targetAngle, isBending, gamePhase,
                                  btnActionDisabled, btnNextShown, checksThisSession>>
         ELSE /\ currentAngle' = moved
              /\ UNCHANGED <<score, currentRound, targetAngle, isBending, gamePhase,
                             btnActionDisabled, btnNextShown, checksThisSession>>
    ELSE NoEffect

\* update() that clamps at the floor without calling stopBending()
Update_ClampOnly(dt) ==
    IF isBending
    THEN LET moved == currentAngle - Decrement(dt) IN
         /\ currentAngle' = IF BelowFloor(moved) THEN Deg(MIN_ANGLE) ELSE moved
         /\ UNCHANGED <<score, currentRound, targetAngle, isBending, gamePhase,
                        btnActionDisabled, btnNextShown, checksThisSession>>
    ELSE NoEffect

\* update(dt): the angle moves while isBending; below the floor it is set to
\* the floor and stopBending() runs on the clamped value
Update(dt) ==
    IF isBending
    THEN LET moved == currentAngle - Decrement(dt) IN
         IF BelowFloor(moved)
         THEN /\ currentAngle' = Deg(MIN_ANGLE)
              /\ IF StopGuard
                 THEN StopEffects(Deg(MIN_ANGLE))
                 ELSE UNCHANGED <<score, currentRound, targetAngle, isBending, gamePhase,
                                  btnActionDisabled, btnNextShown, checksThisSession>>
         ELSE /\ currentAngle' = moved
              /\ UNCHANGED <<score, currentRound, targetAngle, isBending, gamePhase,
                             btnActionDisabled, btnNextShown, checksThisSession>>
    ELSE NoEffect

\* gameLoop(timestamp): one animation frame, dt = (timestamp - lastTime) / 1000
GameLoop ==
    \E dt \in DeltaTimes :
        /\ lastOp' = [op |-> "update", from |-> gamePhase]
        /\ UNCHANGED boardVars
        /\ Update(dt)

Next ==
    \/ NextLevel
    \/ RestartGame
    \/ StartBending
    \/ StopBending
    \/ ToggleAction
    \/ GameLoop

Spec == Init /\ [][Next]_vars

TypeOK ==
    /\ score \in 0 .. (SCORE_PER_EXACT_HIT * MAX_ROUNDS)
    /\ currentRound \in 1 .. (MAX_ROUNDS + 1)
    /\ gamePhase \in Phases
    /\ isBending \in BOOLEAN
    /\ checksThisSession \in 0 .. MaxChecks

----------------------------------------------------------------------------
\* Scoring in isolation: a bend in progress at any angle of the tenth-degree
\* grid between the floor and 180, for any target, about to be stopped.

InitScore ==
    /\ score = 0
    /\ currentRound = 1
    /\ targetAngle \in TargetSet
    /\ currentAngle \in Deg(MIN_ANGLE) .. Deg(FLAT_ANGLE)
    /\ isBending = TRUE
    /\ gamePhase = "BENDING"
    /\ btnActionDisabled = FALSE
    /\ btnNextShown = FALSE
    /\ checksThisSession = 0
    /\ lastOp = [op |-> "startBending", from |-> "IDLE"]
    /\ store = EmptyStore
    /\ BoardIdle

NextScore ==
    \/ StopBending
    \/ ToggleAction

SpecScore == InitScore /\ [][NextScore]_vars

----------------------------------------------------------------------------
\* One round under the animation loop.  A round of any number begins in IDLE;
\* the player has the toggle button (btnNext stays hidden until the bend is
\* over) and requestAnimationFrame keeps calling gameLoop with timestamps that
\* grow, so a frame with dt > 0 eventually runs whenever it can.

InitLive ==
    /\ score = 0
    /\ currentRound \in 1 .. MAX_ROUNDS
    /\ targetAngle \in TargetSet
    /\ currentAngle = Deg(FLAT_ANGLE)
    /\ isBending = FALSE
    /\ gamePhase = "IDLE"
    /\ btnActionDisabled = FALSE
    /\ btnNextShown = FALSE
    /\ checksThisSession = 0
    /\ lastOp = [op |-> "nextLevel", from |-> "STOPPED"]
    /\ store = EmptyStore
    /\ BoardIdle

\* a frame of the loop in which time has passed
PositiveTick ==
    \E dt \in DeltaTimes \ {0} :
        /\ lastOp' = [op |-> "update", from |-> gamePhase]
        /\ UNCHANGED boardVars
        /\ Update(dt)

NextLive ==
    \/ StartBending
    \/ StopBending
    \/ ToggleAction
    \/ GameLoop

SpecLive == InitLive /\ [][NextLive]_vars /\ WF_vars(PositiveTick)

----------------------------------------------------------------------------
\* The /api/scores handler and the sorted set behind it.  A string is a
\* sequence of tokens: a name is a sequence of characters, and the member
\* `${name}#${Date.now()}` is the name followed by "#" and the decimal timestamp.

\* most members of the sorted set in an initial store
MaxStore == 11

\* most milliseconds the server clock advances
MaxTicks == 2

\* the timestamps Date.now() takes
Stamps == 0 .. (MaxStore + MaxTicks)

\* the stop index of kv.zrange('kantpress_scores', 0, 9, ...)
ZRANGE_STOP == 9

\* scores of the entries of an initial store
StoredScores == {250, 500}

\* player names of the entries of an initial store
SampleNames == <<(<<"A">>), (<<"B", "o">>)>>

Member(name, ts) == name \o <<"#", ToString(ts)>>

\* the sorted set with m added at score sc (ZADD: an existing member is rescored)
ZAdd(st, m, sc) == [x \in (DOMAIN st) \cup {m} |-> IF x = m THEN sc ELSE st[x]]

\* the characters of names in the order of their codes; the digits of a
\* timestamp lie between "#" and "A"
CharsBelowDigits == <<" ", "#">>

CharsAboveDigits == <<"A", "B", "a", "m", "n", "o", "y">>

\* the place of a token in byte order: a character by its code, a timestamp
\* by its value (timestamps of Date.now() have the same number of digits)
Place(tok) ==
    IF \E i \in DOMAIN CharsBelowDigits : CharsBelowDigits[i] = tok
    THEN <<0, CHOOSE i \in DOMAIN CharsBelowDigits : CharsBelowDigits[i] = tok>>
    ELSE IF \E i \in DOMAIN CharsAboveDigits : CharsAboveDigits[i] = tok
         THEN <<2, CHOOSE i \in DOMAIN CharsAboveDigits : CharsAboveDigits[i] = tok>>
         ELSE <<1, CHOOSE t \in Stamps : ToString(t) = tok>>

TokenLess(x, y) ==
    LET px == Place(x)
        py == Place(y)
    IN  px[1] < py[1] \/ (px[1] = py[1] /\ px[2] < py[2])

\* a sorts before b in the lexicographic order the sorted set keeps among
\* members of equal score
RECURSIVE LexLess(_, _)
LexLess(a, b) ==
    IF b = <<>> THEN FALSE
    ELSE IF a = <<>> THEN TRUE
    ELSE IF Head(a) = Head(b) THEN LexLess(Tail(a), Tail(b))
    ELSE TokenLess(Head(a), Head(b))

\* x ranks below y in the sorted set: by score, then by member
RanksBelow(st, x, y) == st[x] < st[y] \/ (st[x] = st[y] /\ LexLess(x, y))

\* the members of S from highest to lowest rank
RECURSIVE ByScoreDesc(_, _)
ByScoreDesc(st, S) ==
    IF S = {} THEN <<>>
    ELSE LET top == CHOOSE x \in S : \A y \in S \ {x} : RanksBelow(st, y, x)
         IN  <<top>> \o ByScoreDesc(st, S \ {top})

\* the same from lowest to highest rank (zrange without rev: true)
RECURSIVE ByScoreAsc(_, _)
ByScoreAsc(st, S) ==
    IF S = {} THEN <<>>
    ELSE LET low == CHOOSE x \in S : \A y \in S \ {x} : RanksBelow(st, x, y)
         IN  <<low>> \o ByScoreAsc(st, S \ {low})

\* [member1, score1, member2, score2, ...] of the members at ranks from .. to
RECURSIVE WithScores(_, _)
WithScores(st, members) ==
    IF members = <<>> THEN <<>>
    ELSE <<Head(members), st[Head(members)]>> \o WithScores(st, Tail(members))

Slice(seq, from, to) ==
    SubSeq(seq, from + 1, IF to + 1 <= Len(seq) THEN to + 1 ELSE Len(seq))

\* zrange with the rev option dropped
GetScores_NoRev(st) ==
    WithScores(st, Slice(ByScoreAsc(st, DOMAIN st), 0, ZRANGE_STOP))

\* kv.zrange('kantpress_scores', 0, 9, {rev: true, withScores: true})
GetScores(st) ==
    WithScores(st, Slice(ByScoreDesc(st, DOMAIN st), 0, ZRANGE_STOP))

\* the loop of the GET branch: for (i = 0; i < scores.length; i += 2)
Formatted(scores) ==
    [k \in 1 .. ((Len(scores) + 1) \div 2) |->
        [name |-> scores[2 * k - 1], score |-> scores[2 * k]]]

\* the GET branch of handler(req, res); kvFails: kv.zrange throws
GetHandler(st, kvFails) ==
    IF kvFails
    THEN [status |-> 500, body |-> <<>>]
    ELSE [status |-> 200, body |-> Formatted(GetScores(st))]

\* the store that holds n entries, entry k scored f[k] and saved at time k - 1
StoreOf(n, f) ==
    LET mem(k) == Member(SampleNames[(k % Len(SampleNames)) + 1], k - 1)
    IN  [m \in {mem(k) : k \in 1 .. n} |-> f[CHOOSE k \in 1 .. n : mem(k) = m]]

ServerStores ==
    UNION {{StoreOf(n, f) : f \in [1 .. n -> StoredScores]} : n \in 0 .. MaxStore}

\* a GET /api/scores request is served
HandleGet ==
    /\ \E kvFails \in BOOLEAN : response' = GetHandler(store, kvFails)
    /\ UNCHANGED <<gameVars, store, clock, checkFetch, renderPending, savePost, inputModal,
                   boardModal, boardList, btnSaveDisabled, postsSent,
                   postsRejected>>

InitServer ==
    /\ score = 0
    /\ currentRound = 1
    /\ targetAngle = TARGET_ANGLES[1]
    /\ currentAngle = Deg(FLAT_ANGLE)
    /\ isBending = FALSE
    /\ gamePhase = "IDLE"
    /\ btnActionDisabled = FALSE
    /\ btnNextShown = FALSE
    /\ checksThisSession = 0
    /\ lastOp = [op |-> "initGame", from |-> "IDLE"]
    /\ store \in ServerStores
    /\ BoardIdle

NextServer ==
    \/ HandleGet

SpecServer == InitServer /\ [][NextServer]_vars

----------------------------------------------------------------------------
\* The client side of the leaderboard at game over: checkHighScore(),
\* saveScore() and renderScoreboard(), each suspended at the fetch it awaits.

\* most POSTs saveScore() sends in one finished session
MaxPosts == 2

\* the length below which checkHighScore() always prompts
TOP_N == 10

\* the name saved for an empty input
ANONYM == <<"A", "n", "o", "n", "y", "m">>

\* values of the player-name input
PlayerInputs == {<<>>, <<" ", "A", " ">>, <<"B", "#">>}

\* final scores of a session
SessionScores == {0, 250, 400}

RECURSIVE TrimStart(_)
TrimStart(str) ==
    IF str # <<>> /\ Head(str) = " " THEN TrimStart(Tail(str)) ELSE str

RECURSIVE TrimEnd(_)
TrimEnd(str) ==
    IF str # <<>> /\ str[Len(str)] = " "
    THEN TrimEnd(SubSeq(str, 1, Len(str) - 1))
    ELSE str

\* String.prototype.trim over the blank " "
Trim(str) == TrimEnd(TrimStart(str))

\* nameInput.value.trim() || "Anonym"
NameOf(input) == IF Trim(input) = <<>> THEN ANONYM ELSE Trim(input)

\* str.split('#')[0]: what precedes the first "#"
RECURSIVE SplitHash0(_)
SplitHash0(str) ==
    IF str = <<>> \/ Head(str) = "#"
    THEN <<>>
    ELSE <<Head(str)>> \o SplitHash0(Tail(str))

\* the entries with the timestamp suffix of the name removed
CleanNames(body) ==
    [k \in 1 .. Len(body) |->
        [name |-> SplitHash0(body[k].name), score |-> body[k].score]]

\* the test of checkHighScore() that decides for the name prompt
Qualifies(highScores, sc) ==
    \/ Len(highScores) < TOP_N
    \/ sc > highScores[Len(highScores)].score

\* the POST branch of handler(req, res): the status and the store afterwards.
\* The body is the one saveScore() sends, so score is always a number.
PostHandler(st, name, sc, now, kvFails) ==
    IF name = <<>>
    THEN [status |-> 400, store |-> st]
    ELSE IF kvFails
         THEN [status |-> 500, store |-> st]
         ELSE [status |-> 200, store |-> ZAdd(st, Member(name, now), sc)]

\* showHighScoreBoard(): renderScoreboard() runs up to its fetch
ShowHighScoreBoard ==
    /\ boardModal' = TRUE
    /\ boardList' = [state |-> "loading", rows |-> <<>>]
    /\ renderPending' = renderPending + 1

\* the fetch of checkHighScore() resolves with the handler's response
CheckHighScoreAnswered(kvFails) ==
    /\ LET r          == GetHandler(store, kvFails)
           highScores == IF r.status = 200 THEN CleanNames(r.body) ELSE <<>>
       IN  /\ response' = r
           /\ IF Qualifies(highScores, score)
              THEN /\ inputModal' = TRUE
                   /\ UNCHANGED <<boardModal, boardList, renderPending>>
              ELSE /\ ShowHighScoreBoard
                   /\ UNCHANGED inputModal
    /\ checkFetch' = "none"
    /\ UNCHANGED <<gameVars, store, clock, savePost, btnSaveDisabled, postsSent,
                   postsRejected>>

\* ... with status 200
CheckHighScoreOk ==
    /\ checkFetch = "pending"
    /\ CheckHighScoreAnswered(FALSE)

\* ... with status 500: highScores stays empty
CheckHighScoreNotOk ==
    /\ checkFetch = "pending"
    /\ CheckHighScoreAnswered(TRUE)

\* the fetch of checkHighScore() rejects: the catch block shows the board
CheckHighScoreThrows ==
    /\ checkFetch = "pending"
    /\ checkFetch' = "none"
    /\ ShowHighScoreBoard
    /\ UNCHANGED <<gameVars, store, clock, response, savePost, inputModal,
                   btnSaveDisabled, postsSent, postsRejected>>

\* the fetch of one renderScoreboard() call resolves
RenderScoreboardAnswered(kvFails) ==
    /\ renderPending' = renderPending - 1
    /\ LET r == GetHandler(store, kvFails)
       IN  /\ response' = r
           /\ boardList' = IF r.status = 200
                           THEN [state |-> "list", rows |-> CleanNames(r.body)]
                           ELSE [state |-> "error", rows |-> <<>>]
    /\ UNCHANGED <<gameVars, store, clock, checkFetch, savePost, inputModal,
                   boardModal, btnSaveDisabled, postsSent, postsRejected>>

\* ... with status 200
RenderScoreboardOk ==
    /\ renderPending > 0
    /\ RenderScoreboardAnswered(FALSE)

\* ... with status 500
RenderScoreboardNotOk ==
    /\ renderPending > 0
    /\ RenderScoreboardAnswered(TRUE)

\* the fetch of one renderScoreboard() call rejects
RenderScoreboardThrows ==
    /\ renderPending > 0
    /\ renderPending' = renderPending - 1
    /\ boardList' = [state |-> "error", rows |-> <<>>]
    /\ UNCHANGED <<gameVars, store, clock, response, checkFetch, savePost,
                   inputModal, boardModal, btnSaveDisabled, postsSent,
                   postsRejected>>

\* a click on the save button runs saveScore() up to its fetch.  The button
\* is inside highscore-modal, and a disabled button takes no click.
SaveScore ==
    /\ inputModal
    /\ ~btnSaveDisabled
    /\ postsSent < MaxPosts
    /\ \E input \in PlayerInputs :
          savePost' = [pending |-> TRUE, name |-> NameOf(input), score |-> score]
    /\ btnSaveDisabled' = TRUE
    /\ postsSent' = postsSent + 1
    /\ UNCHANGED <<gameVars, store, clock, response, checkFetch, renderPending,
                   inputModal, boardModal, boardList, postsRejected>>

\* saveScore() whose catch block sends the POST again by itself
SaveScoreThrows_Retry ==
    /\ savePost.pending
    /\ postsSent < MaxPosts
    /\ postsSent' = postsSent + 1
    /\ postsRejected' = postsRejected + 1
    /\ UNCHANGED <<gameVars, store, clock, response, checkFetch, renderPending,
                   savePost, inputModal, boardModal, boardList, btnSaveDisabled>>

\* the POST of saveScore() rejects, whether or not the request reached the
\* handler: the catch block alerts and enables the button again
SaveScoreThrows ==
    /\ savePost.pending
    /\ \E delivered \in BOOLEAN :
          store' = IF delivered
                   THEN PostHandler(store, savePost.name, savePost.score,
                                    clock, FALSE).store
                   ELSE store
    /\ savePost' = NoPost
    /\ btnSaveDisabled' = FALSE
    /\ postsRejected' = postsRejected + 1
    /\ UNCHANGED <<gameVars, clock, response, checkFetch, renderPending,
                   inputModal, boardModal, boardList, postsSent>>

\* the POST of saveScore() resolves with the handler's response, whatever
\* its status: the prompt is closed and the board shown
SaveScoreAnswered(kvFails) ==
    /\ LET r == PostHandler(store, savePost.name, savePost.score, clock, kvFails)
       IN  /\ store' = r.store
           /\ response' = [status |-> r.status, body |-> <<>>]
    /\ savePost' = NoPost
    /\ inputModal' = FALSE
    /\ btnSaveDisabled' = FALSE
    /\ ShowHighScoreBoard
    /\ UNCHANGED <<gameVars, clock, checkFetch, postsSent, postsRejected>>

\* ... with status 200
SaveScoreOk ==
    /\ savePost.pending
    /\ SaveScoreAnswered(FALSE)

\* ... with status 500
SaveScoreNotOk ==
    /\ savePost.pending
    /\ SaveScoreAnswered(TRUE)

\* a millisecond passes on the server
ClockTick ==
    /\ clock < MaxStore + MaxTicks
    /\ clock' = clock + 1
    /\ UNCHANGED <<gameVars, store, response, checkFetch, renderPending, savePost,
                   inputModal, boardModal, boardList, btnSaveDisabled, postsSent,
                   postsRejected>>

\* the empty store and stores of nearly MaxStore entries, their scores alternating
BoardStores ==
    {StoreOf(n, [k \in 1 .. n |-> IF k % 2 = 0 THEN 250 ELSE 500]) :
        n \in {0} \cup ((MaxStore - 2) .. MaxStore)}

\* the round after the last was asked for: endGame() has run and
\* checkHighScore() awaits its fetch
InitBoard ==
    /\ score \in SessionScores
    /\ currentRound = MAX_ROUNDS + 1
    /\ targetAngle = TARGET_ANGLES[1]
    /\ currentAngle = Deg(MIN_ANGLE)
    /\ isBending = FALSE
    /\ gamePhase = "GAMEOVER"
    /\ btnActionDisabled = TRUE
    /\ btnNextShown = FALSE
    /\ checksThisSession = 1
    /\ lastOp = [op |-> "nextLevel", from |-> "STOPPED"]
    /\ store \in BoardStores
    /\ clock = MaxStore
    /\ response = NoResponse
    /\ checkFetch = "pending"
    /\ renderPending = 0
    /\ savePost = NoPost
    /\ inputModal = FALSE
    /\ boardModal = FALSE
    /\ boardList = EmptyList
    /\ btnSaveDisabled = FALSE
    /\ postsSent = 0
    /\ postsRejected = 0

NextBoard ==
    \/ CheckHighScoreOk
    \/ CheckHighScoreNotOk
    \/ CheckHighScoreThrows
    \/ RenderScoreboardOk
    \/ RenderScoreboardNotOk
    \/ RenderScoreboardThrows
    \/ SaveScore
    \/ SaveScoreOk
    \/ SaveScoreNotOk
    \/ SaveScoreThrows
    \/ ClockTick

SpecBoard == InitBoard /\ [][NextBoard]_vars

----------------------------------------------------------------------------
\* update() in the arithmetic of a JS Number: the product bendSpeed * dt and
\* the difference currentAngle - product are each rounded to the nearest
\* representable value, ties to even.  A Number here has MantissaBits
\* significant bits (a JS Number has 53) and is held as a multiple of 2^-10;
\* in this specification currentAngle is such a Number, not tenths of a degree.

\* significant bits of a Number
MantissaBits == 11

\* most 1/128 s a frame lasts
MaxFrame == 4

\* the Number of the integer d
Num(d) == 1024 * d

\* frame times dt of 0 .. MaxFrame / 128 s
FrameTimes == {8 * k : k \in 0 .. MaxFrame}

\* the distance between neighbouring Numbers at magnitude n
RECURSIVE Spacing(_)
Spacing(n) == IF n < 2 ^ MantissaBits THEN 1 ELSE 2 * Spacing(n \div 2)

\* round to nearest, ties to even
RoundNumber(n) ==
    LET m    == Abs(n)
        q    == Spacing(m)
        lo   == (m \div q) * q
        near == IF 2 * (m - lo) < q THEN lo
                ELSE IF 2 * (m - lo) > q THEN lo + q
                ELSE IF (lo \div q) % 2 = 0 THEN lo ELSE lo + q
    IN  IF n < 0 THEN 0 - near ELSE near

\* the fields update() and stopBending() read and write
Cur ==
    [currentAngle |-> currentAngle, isBending |-> isBending, gamePhase |-> gamePhase,
     score |-> score, currentRound |-> currentRound, targetAngle |-> targetAngle,
     btnActionDisabled |-> btnActionDisabled, btnNextShown |-> btnNextShown]

\* update(dt) on the fields s.  At the forced stop calculateScore() reads the
\* integer 45, whose difference to an integer target, times 5, is exact.
Ticked(s, dt) ==
    IF s.isBending
    THEN LET moved == RoundNumber(s.currentAngle - RoundNumber(bendSpeed * dt)) IN
         IF moved < Num(MIN_ANGLE)
         THEN IF s.gamePhase = "BENDING"
              THEN [s EXCEPT !.currentAngle = Num(MIN_ANGLE),
                             !.isBending = FALSE,
                             !.gamePhase = "STOPPED",
                             !.score = @ + Points(Deg(MIN_ANGLE), s.targetAngle),
                             !.currentRound = @ + 1,
                             !.btnActionDisabled = TRUE,
                             !.btnNextShown = TRUE]
              ELSE [s EXCEPT !.currentAngle = Num(MIN_ANGLE)]
         ELSE [s EXCEPT !.currentAngle = moved]
    ELSE s

\* gameLoop(timestamp) with update() in rounded arithmetic
GameLoopRounded ==
    \E dt \in FrameTimes :
        LET r == Ticked(Cur, dt) IN
        /\ lastOp' = [op |-> "update", from |-> gamePhase]
        /\ currentAngle' = r.currentAngle
        /\ isBending' = r.isBending
        /\ gamePhase' = r.gamePhase
        /\ score' = r.score
        /\ currentRound' = r.currentRound
        /\ targetAngle' = r.targetAngle
        /\ btnActionDisabled' = r.btnActionDisabled
        /\ btnNextShown' = r.btnNextShown
        /\ UNCHANGED <<checksThisSession, boardVars>>

\* a round is entered: the sheet is flat
InitRounded ==
    /\ score = 0
    /\ currentRound = 1
    /\ targetAngle \in TargetSet
    /\ currentAngle = Num(FLAT_ANGLE)
    /\ isBending = FALSE
    /\ gamePhase = "IDLE"
    /\ btnActionDisabled = FALSE
    /\ btnNextShown = FALSE
    /\ checksThisSession = 0
    /\ lastOp = [op |-> "nextLevel", from |-> "STOPPED"]
    /\ store = EmptyStore
    /\ BoardIdle

NextRounded ==
    \/ StartBending
    \/ GameLoopRounded

SpecRounded == InitRounded /\ [][NextRounded]_vars

----------------------------------------------------------------------------
\* handler(req, res) as a whole: any method, any JSON body.

\* req.body.name: absent (undefined) or a string
NameFields ==
    {[kind |-> "missing", val |-> <<>>]}
       \cup {[kind |-> "string", val |-> v] : v \in {<<>>, <<"A">>, <<"B", "o">>}}

\* req.body.score: absent, a string or a number
ScoreFields ==
    {[kind |-> "missing", val |-> 0], [kind |-> "string", val |-> 0]}
       \cup {[kind |-> "number", val |-> v] : v \in {0, 250}}

\* POST requests; hasBody is false for one whose req.body is undefined
PostRequests ==
    [method : {"POST"}, hasBody : BOOLEAN, name : NameFields, score : ScoreFields]

\* a request of another method, sent without a body
Bodiless(method) ==
    [method |-> method, hasBody |-> FALSE,
     name |-> [kind |-> "missing", val |-> <<>>],
     score |-> [kind |-> "missing", val |-> 0]]

Requests == PostRequests \cup {Bodiless("GET"), Bodiless("DELETE")}

\* status, JSON list and store after handler(req, res).  Destructuring an
\* undefined req.body throws inside the try block of the POST branch.
Handler(st, req, now, kvFails) ==
    IF req.method = "GET"
    THEN LET r == GetHandler(st, kvFails)
         IN  [status |-> r.status, body |-> r.body, store |-> st]
    ELSE IF req.method = "POST"
    THEN IF ~req.hasBody
         THEN [status |-> 500, body |-> <<>>, store |-> st]
         ELSE IF req.name.kind # "string" \/ req.score.kind # "number"
         THEN [status |-> 400, body |-> <<>>, store |-> st]
         ELSE LET r == PostHandler(st, req.name.val, req.score.val, now, kvFails)
              IN  [status |-> r.status, body |-> <<>>, store |-> r.store]
    ELSE [status |-> 405, body |-> <<>>, store |-> st]

HandleRequest(req, kvFails) ==
    /\ LET r == Handler(store, req, clock, kvFails)
       IN  /\ store' = r.store
           /\ response' = [status |-> r.status, body |-> r.body]
    /\ UNCHANGED <<gameVars, clock, checkFetch, renderPending, savePost, inputModal,
                   boardModal, boardList, btnSaveDisabled, postsSent, postsRejected>>

\* a request is served
Serve == \E req \in Requests, kvFails \in BOOLEAN : HandleRequest(req, kvFails)

InitHandler ==
    /\ score = 0
    /\ currentRound = 1
    /\ targetAngle = TARGET_ANGLES[1]
    /\ currentAngle = Deg(FLAT_ANGLE)
    /\ isBending = FALSE
    /\ gamePhase = "IDLE"
    /\ btnActionDisabled = FALSE
    /\ btnNextShown = FALSE
    /\ checksThisSession = 0
    /\ lastOp = [op |-> "initGame", from |-> "IDLE"]
    /\ store = EmptyStore
    /\ clock = MaxStore
    /\ response = NoResponse
    /\ checkFetch = "none"
    /\ renderPending = 0
    /\ savePost = NoPost
    /\ inputModal = FALSE
    /\ boardModal = FALSE
    /\ boardList = EmptyList
    /\ btnSaveDisabled = FALSE
    /\ postsSent = 0
    /\ postsRejected = 0

NextHandler ==
    \/ Serve
    \/ ClockTick

SpecHandler == InitHandler /\ [][NextHandler]_vars

----------------------------------------------------------------------------
\* Claims

\* a stop signal: stopBending(), toggleAction() or a frame of the loop
StopSignal == StopBending \/ ToggleAction \/ GameLoop

\* C1: each round is scored exactly once.  A stop signal (manual stop, toggle
\* or tick) that arrives in STOPPED leaves score, currentRound, gamePhase and
\* currentAngle unchanged, and a stop signal changes score or currentRound only
\* by taking the phase from BENDING to STOPPED, adding the points of the final
\* angle once and incrementing the round counter by one.
C1_ScoredOncePerRound ==
    [][ /\ (gamePhase = "STOPPED" /\ StopSignal)
            => UNCHANGED <<score, currentRound, gamePhase, currentAngle>>
        /\ \/ UNCHANGED <<score, currentRound>>
           \/ ~StopSignal
           \/ /\ gamePhase = "BENDING"
              /\ gamePhase' = "STOPPED"
              /\ currentRound' = currentRound + 1
              /\ score' = score + Points(currentAngle', targetAngle) ]_vars

\* a duplicate manual stop has arrived in a round that was already scored
C1_Witness ==
    /\ lastOp = [op |-> "stopBending", from |-> "STOPPED"]
    /\ gamePhase = "STOPPED"
    /\ currentRound = 2
    /\ score = 75

\* C2: isBending is true if and only if gamePhase is BENDING.
C2_FlagIffBending == isBending <=> (gamePhase = "BENDING")

\* the flag is up in a bend in progress, in the third round
C2_Witness ==
    /\ lastOp = [op |-> "startBending", from |-> "IDLE"]
    /\ gamePhase = "BENDING"
    /\ isBending
    /\ currentRound = 3

\* C3: currentAngle always lies in [floor, 180], and a frame of the loop never
\* increases it: the angle after the tick is <= the angle before and >= the floor.
C3_AngleInRange ==
    /\ [](Deg(MIN_ANGLE) <= currentAngle /\ currentAngle <= Deg(FLAT_ANGLE))
    /\ [][ \/ (currentAngle' <= currentAngle /\ currentAngle' >= Deg(MIN_ANGLE))
           \/ ~GameLoop ]_vars

\* a tick has moved the angle of a bend in progress strictly between floor and 180
C3_Witness ==
    /\ lastOp = [op |-> "update", from |-> "BENDING"]
    /\ gamePhase = "BENDING"
    /\ currentAngle = Deg(55)

\* C4: a tick in BENDING whose computed angle is below the floor sets
\* currentAngle to exactly the floor, makes the phase STOPPED and adds the
\* points of the floor value (not of the computed value) to score, in that tick.
C4_ClampThenScore ==
    [][ \A dt \in DeltaTimes :
          ( /\ gamePhase = "BENDING"
            /\ currentAngle - Decrement(dt) < Deg(MIN_ANGLE)
            /\ lastOp' = [op |-> "update", from |-> "BENDING"]
            /\ Update(dt) )
          => /\ currentAngle' = Deg(MIN_ANGLE)
             /\ gamePhase' = "STOPPED"
             /\ score' = score + Points(Deg(MIN_ANGLE), targetAngle) ]_vars

\* a forced stop in round 1 with target 40: the floor 45 scores 75, while a
\* computed angle of 40 would have scored 100
C4_Witness ==
    /\ lastOp = [op |-> "update", from |-> "BENDING"]
    /\ gamePhase = "STOPPED"
    /\ currentAngle = Deg(MIN_ANGLE)
    /\ targetAngle = 40
    /\ currentRound = 2
    /\ score = 75

\* C5: no reachable state has phase BENDING with currentAngle at the floor
\* (a tick that ends on the floor, also exactly, forces the phase to STOPPED).
\* update() stops the bend only below the floor: 180 - 30 * 4.5 = 45 is not
\* below 45, so the bend goes on with the angle on the floor.
C5_NoBendingAtFloor == ~(gamePhase = "BENDING" /\ currentAngle = Deg(MIN_ANGLE))

\* C6: the points awarded by a stop are 100 when diff < 0.5 and otherwise
\* max(0, floor(100 - 5 * diff)): the integer p with p <= 100 - 5 * diff < p + 1,
\* or 0 when 100 - 5 * diff is negative.  They lie in 0 .. 100, are 0 for
\* diff >= 20, 100 for diff = 0 and 75 for diff = 5.  (In SpecScore the score
\* before the stop is 0, so score after the stop is the points awarded.)
C6_PointsFormula ==
    gamePhase = "STOPPED" =>
        LET d == Abs(currentAngle - Deg(targetAngle))
            v == Deg(100) - 5 * d
        IN  /\ score \in 0 .. 100
            /\ (2 * d < Deg(1)) => score = 100
            /\ (2 * d >= Deg(1) /\ v < 0) => score = 0
            /\ (2 * d >= Deg(1) /\ v >= 0)
                  => (score * Deg(1) <= v /\ v < (score + 1) * Deg(1))
            /\ (d >= Deg(20)) => score = 0
            /\ (d = 0) => score = 100
            /\ (d = Deg(5)) => score = 75

\* a stop at 92.3 degrees with target 90: diff 2.3, floor(88.5) = 88 points
C6_Witness ==
    /\ gamePhase = "STOPPED"
    /\ lastOp = [op |-> "stopBending", from |-> "BENDING"]
    /\ targetAngle = 90
    /\ currentAngle = Deg(92) + 3
    /\ score = 88

\* the points of calculateScore() for every target and every angle of the grid
PointsTable ==
    [t \in TargetSet |-> [a \in Deg(MIN_ANGLE) .. Deg(FLAT_ANGLE) |-> Points(a, t)]]

\* C7: the points are a non-increasing function of diff: the points awarded
\* for the final angle are never more than the points of any angle of the grid
\* that is strictly closer to the target (the angles a with
\* |a - target| < |currentAngle - target|, an interval around the target).
C7_PointsMonotone ==
    gamePhase = "STOPPED" =>
        LET c  == Deg(targetAngle)
            d  == Abs(currentAngle - c)
            lo == Max(Deg(MIN_ANGLE), c - d + 1)
            hi == -Max(-Deg(FLAT_ANGLE), -(c + d - 1))
        IN  \A a \in lo .. hi : PointsTable[targetAngle][a] >= score

\* a stop just past the exact-hit threshold, on the far side of the target:
\* diff 0.5 scores 97, less than the 100 of the closer angles
C7_Witness ==
    /\ gamePhase = "STOPPED"
    /\ lastOp = [op |-> "toggleAction", from |-> "BENDING"]
    /\ targetAngle = 135
    /\ currentAngle = Deg(134) + 5
    /\ score = 97

\* C8: once MAX_ROUNDS bends are finalized the advance action takes STOPPED to
\* GAMEOVER, and in GAMEOVER every advance or toggle action changes no session
\* state and starts no further leaderboard qualification check.
C8_GameOverAbsorbs ==
    [][ /\ (gamePhase = "STOPPED" /\ currentRound > MAX_ROUNDS /\ NextLevel)
            => gamePhase' = "GAMEOVER"
        /\ (gamePhase = "GAMEOVER" /\ (NextLevel \/ ToggleAction))
            => UNCHANGED <<session, checksThisSession>> ]_vars

\* C9: the advance action taken in STOPPED with currentRound <= MAX_ROUNDS
\* yields phase IDLE, currentAngle 180, isBending false and a targetAngle of
\* the candidate set, and leaves score and currentRound unchanged.
C9_AdvanceFrame ==
    [][ (gamePhase = "STOPPED" /\ currentRound <= MAX_ROUNDS /\ NextLevel)
        => /\ gamePhase' = "IDLE"
           /\ currentAngle' = Deg(FLAT_ANGLE)
           /\ isBending' = FALSE
           /\ targetAngle' \in TargetSet
           /\ UNCHANGED <<score, currentRound>> ]_vars

\* the advance has been taken after a scored bend that left the angle below 180
C9_Witness ==
    /\ lastOp = [op |-> "nextLevel", from |-> "STOPPED"]
    /\ gamePhase = "IDLE"
    /\ currentAngle = Deg(FLAT_ANGLE)
    /\ currentRound = 4
    /\ score = 225

\* C10: in every state whose phase is not GAMEOVER, targetAngle is a member of
\* TARGET_ANGLES.
C10_TargetInSet ==
    gamePhase # "GAMEOVER" => \E i \in DOMAIN TARGET_ANGLES : targetAngle = TARGET_ANGLES[i]

\* the last round of a session is being bent towards a target of the list
C10_Witness ==
    /\ gamePhase = "BENDING"
    /\ currentRound = MAX_ROUNDS
    /\ targetAngle = 160
    /\ currentAngle = Deg(160)

\* the handlers that can run while a round is in progress, other than restart
RoundAction == StartBending \/ StopBending \/ ToggleAction \/ GameLoop \/ NextLevel

\* C11: the target angle is fixed for the whole round: no start, stop, toggle,
\* tick or advance taken while the phase is IDLE or BENDING changes targetAngle.
\* nextLevel() has no phase guard and redraws the target in IDLE and BENDING.
C11_TargetFixedInRound ==
    [][ \/ targetAngle' = targetAngle
        \/ gamePhase \notin {"IDLE", "BENDING"}
        \/ ~RoundAction ]_vars

\* C12: currentRound starts at 1, is incremented by exactly 1 by each finalized
\* bend (BENDING to STOPPED) and changed by nothing else except restart, which
\* sets it to 1; it stays in 1 .. MAX_ROUNDS + 1 and the phase is GAMEOVER only
\* when currentRound = MAX_ROUNDS + 1.
C12_RoundCounter ==
    /\ [](/\ 1 <= currentRound /\ currentRound <= MAX_ROUNDS + 1
          /\ (gamePhase = "GAMEOVER" => currentRound = MAX_ROUNDS + 1)
          /\ (lastOp.op = "initGame" => currentRound = 1))
    /\ [][ /\ (gamePhase = "BENDING" /\ gamePhase' = "STOPPED")
               => currentRound' = currentRound + 1
           /\ \/ currentRound' = currentRound
              \/ (gamePhase = "BENDING" /\ gamePhase' = "STOPPED")
              \/ (RestartGame /\ currentRound' = 1) ]_vars

\* the last bend of a session has been finalized by a forced stop
C12_Witness ==
    /\ gamePhase = "STOPPED"
    /\ lastOp = [op |-> "update", from |-> "BENDING"]
    /\ currentRound = MAX_ROUNDS + 1

\* C13: restart, in any state, yields score 0, currentRound 1, phase IDLE,
\* isBending false, currentAngle 180 and a targetAngle of the candidate set.
C13_RestartFresh ==
    [][ \/ ~RestartGame
        \/ /\ score' = 0
           /\ currentRound' = 1
           /\ gamePhase' = "IDLE"
           /\ isBending' = FALSE
           /\ currentAngle' = Deg(FLAT_ANGLE)
           /\ targetAngle' \in TargetSet ]_vars

\* a restart has been taken at game over
C13_Witness ==
    /\ lastOp = [op |-> "restartGame", from |-> "GAMEOVER"]
    /\ gamePhase = "IDLE"
    /\ score = 0
    /\ currentRound = 1

\* an illegal transition attempt: start outside IDLE, stop outside BENDING,
\* toggle in STOPPED or GAMEOVER
IllegalAttempt ==
    \/ (gamePhase # "IDLE" /\ StartBending)
    \/ (gamePhase # "BENDING" /\ StopBending)
    \/ (gamePhase \in {"STOPPED", "GAMEOVER"} /\ ToggleAction)

\* C14: an illegal transition attempt leaves phase, isBending, currentAngle,
\* targetAngle, score and round counter (and the buttons) unchanged.
C14_IllegalIsNoOp ==
    [][ \/ UNCHANGED <<session, btnActionDisabled, btnNextShown, checksThisSession>>
        \/ ~IllegalAttempt ]_vars

\* a start has been attempted in the middle of a bend
C14_Witness ==
    /\ lastOp = [op |-> "startBending", from |-> "BENDING"]
    /\ gamePhase = "BENDING"
    /\ currentAngle = Deg(100)

\* C15: score is a non-negative integer; it is changed only by the scoring of a
\* stop, which adds a value in 0 .. 100, and by restart, which sets it to 0.
C15_ScoreFrame ==
    /\ [](score \in Nat)
    /\ [][ \/ score' = score
           \/ (RestartGame /\ score' = 0)
           \/ /\ gamePhase = "BENDING"
              /\ gamePhase' = "STOPPED"
              /\ StopSignal
              /\ (score' - score) \in 0 .. 100 ]_vars

\* three bends have been scored 100 each
C15_Witness ==
    /\ gamePhase = "STOPPED"
    /\ currentRound = 4
    /\ score = 300

\* C16: the phase is always one of the four, it changes only along
\* IDLE -> BENDING, BENDING -> STOPPED, STOPPED -> IDLE, STOPPED -> GAMEOVER
\* and restart -> IDLE, and a bend leaves BENDING only through a stop that
\* scores it.  nextLevel() and restartGame() have no phase guard and take
\* BENDING to IDLE without scoring.
C16_PhaseTransitions ==
    /\ [](gamePhase \in Phases)
    /\ [][ /\ \/ gamePhase' = gamePhase
              \/ <<gamePhase, gamePhase'>> \in
                    {<<"IDLE", "BENDING">>, <<"BENDING", "STOPPED">>,
                     <<"STOPPED", "IDLE">>, <<"STOPPED", "GAMEOVER">>}
              \/ (RestartGame /\ gamePhase' = "IDLE")
           /\ (gamePhase = "BENDING" /\ gamePhase' # "BENDING")
                 => (gamePhase' = "STOPPED" /\ currentRound' = currentRound + 1) ]_vars

C20_TopTenDescending ==
    (response.status = 200) =>
        LET body == response.body
            n    == Cardinality(DOMAIN store)
        IN  /\ Len(body) = (IF n < 10 THEN n ELSE 10)
            /\ \A k \in 1 .. Len(body) :
                  /\ body[k].name \in DOMAIN store
                  /\ body[k].score = store[body[k].name]
            /\ \A j, k \in 1 .. Len(body) :
                  /\ (j < k) => body[j].score >= body[k].score
                  /\ (j # k) => body[j].name # body[k].name
            /\ \A m \in DOMAIN store :
                  (\A k \in 1 .. Len(body) : body[k].name # m)
                     => (\A k \in 1 .. Len(body) : body[k].score >= store[m])

\* eleven entries are stored, the one left out is a low one and the list
\* served holds both scores
C20_Witness ==
    /\ response.status = 200
    /\ Cardinality(DOMAIN store) = 11
    /\ Len(response.body) = 10
    /\ response.body[1].score = 500
    /\ response.body[10].score = 250

\* a call of the leaderboard gateway fails: its fetch rejects, or resolves
\* with an error response
GatewayFailure ==
    \/ CheckHighScoreThrows
    \/ CheckHighScoreNotOk
    \/ RenderScoreboardThrows
    \/ RenderScoreboardNotOk
    \/ SaveScoreThrows
    \/ SaveScoreNotOk

\* C18: a failed gateway call at game over leaves score, round counter, phase,
\* targetAngle and currentAngle as they were, and starts no retry: no POST is
\* sent, checkHighScore() is not run again, and the only fetch a failure may
\* start is the one of the board it falls back to showing; a failed board
\* fetch starts none.
C18_FailureKeepsSession ==
    [][GatewayFailure =>
          /\ session' = session
          /\ postsSent' = postsSent
          /\ checksThisSession' = checksThisSession
          /\ checkFetch' = "none" \/ checkFetch' = checkFetch
          /\ ~savePost'.pending \/ savePost' = savePost
          /\ renderPending' <= renderPending + 1
          /\ (RenderScoreboardThrows \/ RenderScoreboardNotOk)
                => renderPending' < renderPending]_vars

\* a finished session with points whose POST was rejected and whose board
\* could not be fetched
C18_Witness ==
    /\ gamePhase = "GAMEOVER"
    /\ score > 0
    /\ postsRejected > 0
    /\ boardList.state = "error"
    /\ response.status = 500

\* C19: in a finished session checkHighScore() fetches the list once and
\* saveScore() sends the score at most once.
C19_OneFetchOneSubmit ==
    (gamePhase = "GAMEOVER") => (checksThisSession = 1 /\ postsSent <= 1)

\* C21: while bending, a tick by d1 followed by a tick by d2 leaves the same
\* currentAngle, phase and score (and the other fields update() writes) as
\* one tick by d1 + d2, for all frame times d1, d2, clamp and forced stop
\* included.
C21_SplitTicks ==
    (gamePhase = "BENDING") =>
        \A d1, d2 \in FrameTimes :
            Ticked(Ticked(Cur, d1), d2) = Ticked(Cur, RoundNumber(d1 + d2))

\* the list a GET is answered with when the store is st
TopList(st) == GetHandler(st, FALSE).body

\* member m is on that list
Listed(st, m) == \E k \in 1 .. Len(TopList(st)) : TopList(st)[k].name = m

\* C22: when checkHighScore() has decided, the name prompt is shown if and only
\* if the stored list has fewer than 10 entries or the session score is
\* strictly greater than the lowest listed score; and if and only if an entry
\* saved with that score, under any name, would be on the list afterwards.
C22_PromptIffQualifies ==
    [][(checkFetch = "pending" /\ checkFetch' = "none") =>
          /\ inputModal' <=>
                \/ Len(TopList(store)) < 10
                \/ score > TopList(store)[Len(TopList(store))].score
          /\ \A input \in PlayerInputs :
                LET member == Member(NameOf(input), clock)
                IN  inputModal' <=> Listed(ZAdd(store, member, score), member)]_vars

\* a POST whose name is missing or empty, or whose score is not a number
InvalidPost(req) ==
    /\ req.method = "POST"
    /\ \/ ~req.hasBody
       \/ req.name.kind # "string"
       \/ req.name.val = <<>>
       \/ req.score.kind # "number"

ValidPost(req) == req.method = "POST" /\ ~InvalidPost(req)

\* C23: a POST whose name is missing or empty or whose score is not a number
\* is answered 400 and leaves the store as it was; a method other than GET
\* and POST is answered 405 and leaves the store as it was; a valid POST,
\* score 0 included, is answered 200 when the store works and adds exactly one
\* entry, with the given score.
C23_PostHandler ==
    [][\A req \in Requests :
          /\ (InvalidPost(req) /\ \E f \in BOOLEAN : HandleRequest(req, f))
                => (response'.status = 400 /\ store' = store)
          /\ (req.method \notin {"GET", "POST"} /\ \E f \in BOOLEAN : HandleRequest(req, f))
                => (response'.status = 405 /\ store' = store)
          /\ (ValidPost(req) /\ HandleRequest(req, FALSE))
                => /\ response'.status = 200
                   /\ Cardinality(DOMAIN store') = Cardinality(DOMAIN store) + 1
                   /\ \E m \in DOMAIN store' \ DOMAIN store :
                         store'[m] = req.score.val]_vars

\* C24: a valid POST under a name that is already stored keeps every stored
\* entry with its score and adds one more entry, whenever it arrives.
C24_DuplicateNamesKept ==
    [][\A req \in Requests :
          (/\ ValidPost(req)
           /\ HandleRequest(req, FALSE)
           /\ \E m \in DOMAIN store : SplitHash0(m) = req.name.val)
             => /\ \A m \in DOMAIN store : m \in DOMAIN store' /\ store'[m] = store[m]
                /\ \E m \in DOMAIN store' \ DOMAIN store : SplitHash0(m) = req.name.val]_vars

\* C25: score never exceeds 100 times the number of bends finalized since the
\* last restart, which is currentRound - 1; at game over it is at most 1000.
C25_ScoreBound ==
    /\ score <= 100 * (currentRound - 1)
    /\ (gamePhase = "GAMEOVER") => score <= 1000

\* game over after ten exact hits
C25_Witness ==
    /\ gamePhase = "GAMEOVER"
    /\ currentRound = MAX_ROUNDS + 1
    /\ score = 1000

\* C26: for the target of every round some final angle between the floor and
\* 180 scores 100 points; that is, the target lies within half a degree of
\* that interval.
C26_RoundWinnable ==
    (gamePhase \in {"IDLE", "BENDING"}) =>
        /\ \E angle \in Deg(MIN_ANGLE) .. Deg(FLAT_ANGLE) : Points(angle, targetAngle) = 100
        /\ 2 * Deg(targetAngle) > 2 * Deg(MIN_ANGLE) - Deg(1)
        /\ 2 * Deg(targetAngle) < 2 * Deg(FLAT_ANGLE) + Deg(1)

\* the name a member was stored under: the member without "#" and timestamp
SubmittedName(member) == SubSeq(member, 1, Len(member) - 2)

\* C27: every entry the scoreboard lists is shown under the name it was
\* submitted with: stripping the stored member with split('#')[0] gives back
\* the trimmed, non-empty name saveScore() sent.
C27_NameRoundTrip ==
    [][RenderScoreboardOk =>
          /\ boardList'.state = "list"
          /\ Len(boardList'.rows) = Len(TopList(store))
          /\ \A k \in 1 .. Len(TopList(store)) :
                boardList'.rows[k].name = SubmittedName(TopList(store)[k].name)]_vars

====
